---------------------------- MODULE Spec2Model ----------------------------
(* Model of brickuv.py: island discovery over a quad mesh (FaceGrid),     *)
(* cell grouping (Island.__init__), the texture span policy               *)
(* (Island.get_texture_span), UV assignment (Island.apply) and the driver *)
(* (main).                                                                *)
(*                                                                        *)
(* A loop is a pair <<face, k>>: the k-th entry of face.loops (k in 0..3).*)
(* UV values are kept exact: get_uv's result is stored as the pair of     *)
(* numerators over the denominators 2*subdivs.x*texture_size.x and        *)
(* 2*subdivs.y*texture_size.y.                                            *)
EXTENDS Integers, Sequences, FiniteSets, TLC

VARIABLES mesh,      \* the edit mesh bm (name of one of the input meshes)
          select,    \* the set of faces with face.select
          params,    \* _params
          pc,        \* position of the running invocation
          faceIdx,   \* cursor of "for face in bm.faces" (main)
          islands,   \* _islands
          grid,      \* the FaceGrid under construction
          stack,     \* the frames of the add_item recursion
          calls,     \* number of add_item entries for the current FaceGrid
          applyIdx,  \* cursor of "for i in _islands" (main)
          orgs,      \* the (x_org, y_org) drawn by each apply call so far
          uv,        \* loop[uv_layer].uv of the loops written so far
          spanIn,    \* arguments of a direct get_texture_span call
          spanOut    \* its result

vars == <<mesh, select, params, pc, faceIdx, islands, grid, stack, calls,
          applyIdx, orgs, uv, spanIn, spanOut>>

--------------------------------------------------------------------------
(* Bounds of the model.                                                   *)
GridW == 2
GridH == 2
RingN == 5
MaxDepth == 12
BoxW == 3
SpanRange == 2

(* Small values for the operator's size properties.                       *)
TexSize == 6
CellSize == 2

Min(a, b) == IF a < b THEN a ELSE b
Max(a, b) == IF a > b THEN a ELSE b

--------------------------------------------------------------------------
(* Input meshes: face -> its four vertices in face.loops order, and       *)
(* vertex -> vert.co.  All are manifold (an edge has at most two faces).  *)

Meshes == {"grid", "ring", "cube"}

\* A GridW x GridH wall of quads in the plane y = 0, wound consistently;
\* face.loops starts at a corner that varies from face to face.
GridVert(i, j) == j * (GridW + 1) + i + 1
GridQuad(f) ==
    LET i == (f - 1) % GridW
        j == (f - 1) \div GridW
    IN  <<GridVert(i, j), GridVert(i + 1, j), GridVert(i + 1, j + 1), GridVert(i, j + 1)>>

\* A closed band of RingN quads (the side of a prism).
RingQuad(f) ==
    LET n == (f % RingN) + 1
    IN  <<f, n, RingN + n, RingN + f>>

\* The six faces of a cube, wound outwards; vertex 1 + x + 2y + 4z.
CubeQuad(f) ==
    <<  <<1, 3, 4, 2>>, <<5, 6, 8, 7>>, <<1, 2, 6, 5>>,
        <<4, 3, 7, 8>>, <<3, 1, 5, 7>>, <<2, 4, 8, 6>> >>[f]

MeshFaces(m) ==
    CASE m = "grid" -> 1 .. (GridW * GridH)
      [] m = "ring" -> 1 .. RingN
      [] m = "cube" -> 1 .. 6
      [] OTHER -> {}

FaceVerts(m, f) ==
    LET q == CASE m = "grid" -> GridQuad(f)
               [] m = "ring" -> RingQuad(f)
               [] OTHER -> CubeQuad(f)
        r == f % 4
    IN  [k \in 0 .. 3 |-> q[((k + r) % 4) + 1]]

\* vert.co as <<x, y, z>>
VertCo(m, v) ==
    CASE m = "grid" -> <<(v - 1) % (GridW + 1), 0, (v - 1) \div (GridW + 1)>>
      [] m = "ring" -> LET i == ((v - 1) % RingN) + 1
                       IN  <<i, i * (RingN + 1 - i), (v - 1) \div RingN>>
      [] OTHER -> <<(v - 1) % 2, ((v - 1) \div 2) % 2, (v - 1) \div 4>>

\* The plane a face lies in, for select_similar(type='COPLANAR').
FacePlane(m, f) == IF m = "grid" THEN 0 ELSE f

Loops(m) == MeshFaces(m) \X (0 .. 3)

link_loop_next(l) == <<l[1], (l[2] + 1) % 4>>
link_loop_prev(l) == <<l[1], (l[2] + 3) % 4>>

LoopVert(m, l) == FaceVerts(m, l[1])[l[2]]
LoopEdge(m, l) == {LoopVert(m, l), LoopVert(m, link_loop_next(l))}

\* loop.link_loop_radial_next: the loop of the other face on the same edge;
\* on a boundary edge the radial cycle holds the loop alone.
RadialTable ==
    [m \in Meshes |->
        [l \in Loops(m) |->
            LET others == {o \in Loops(m) : o[1] # l[1] /\ LoopEdge(m, o) = LoopEdge(m, l)}
            IN  IF others = {} THEN l ELSE CHOOSE o \in others : TRUE]]

link_loop_radial_next(m, l) == RadialTable[m][l]

RECURSIVE increment_loop(_, _)
increment_loop(loop, count) ==
    IF count = 0 THEN loop ELSE increment_loop(link_loop_next(loop), count - 1)

--------------------------------------------------------------------------
(* Params                                                                 *)

Subdivs(p) == IF p.subdiv THEN p.cell_size ELSE <<1, 1>>

MakeParams(cs, rot, off, dh, cop, rnd, sub) ==
    [texture_size |-> <<TexSize, TexSize>>, cell_size |-> cs,
     rotate |-> rot, offset |-> off, double_halves |-> dh,
     coplanar |-> cop, random |-> rnd, subdiv |-> sub]

--------------------------------------------------------------------------
(* FaceGrid                                                               *)

twin_adjust_loop_same == <<2, 1, 0, 1>>
twin_adjust_loop == <<2, 1, 0, 3>>
twin_delta_x == <<0, 1, 0, -1>>
twin_delta_y == <<-1, 0, 1, 0>>

EmptyGrid ==
    [faces |-> {}, items |-> <<>>, min_x |-> 0, min_y |-> 0, max_x |-> 0, max_y |-> 0]

\* add_item, lines 53-60: record the item and grow the bounding box.
GridAdd(g, loop, x, y) ==
    [faces |-> g.faces \cup {loop[1]},
     items |-> Append(g.items, [loop |-> loop, x |-> x, y |-> y]),
     min_x |-> Min(g.min_x, x), min_y |-> Min(g.min_y, y),
     max_x |-> Max(g.max_x, x), max_y |-> Max(g.max_y, y)]

Frame(loop, x, y, i) == [loop |-> loop, x |-> x, y |-> y, i |-> i]

FollowTwinSelected(twin, g) == twin[1] \in select

\* The test that guards the recursion (lines 68-69).
FollowTwin(twin, g) == twin[1] \in select /\ twin[1] \notin g.faces

--------------------------------------------------------------------------
(* Island.__init__                                                        *)

\* The comparison of line 89: v before b in (z, y, x) order.
LessZYX(v, b) ==
    \/ v[3] < b[3]
    \/ v[3] = b[3] /\ v[2] < b[2]
    \/ v[3] = b[3] /\ v[2] = b[2] /\ v[1] < b[1]

\* Lines 85-90: the loop to start from.
RECURSIVE BestFrom(_, _, _, _)
BestFrom(m, f, i, best) ==
    IF i > 3 THEN best
    ELSE IF LessZYX(VertCo(m, LoopVert(m, <<f, i>>)), VertCo(m, LoopVert(m, best)))
         THEN BestFrom(m, f, i + 1, <<f, i>>)
         ELSE BestFrom(m, f, i + 1, best)

BestLoop(m, f) == BestFrom(m, f, 1, <<f, 0>>)

\* A slot of rows holding None is a cell without faces: a Cell always gets a
\* face right after it is created (lines 106-108).
NoCell == [faces |-> <<>>, is_end |-> <<FALSE, FALSE, FALSE, FALSE>>]

IsCell(c) == c.faces # <<>>

CellFaceRaw(item, face_x, face_y, sub) ==
    [loop |-> item.loop, x |-> item.x % sub[1], y |-> item.y % sub[2]]

\* Line 108: the face's position inside its cell.
CellFace(item, face_x, face_y, sub) ==
    [loop |-> item.loop, x |-> face_x % sub[1], y |-> face_y % sub[2]]

\* Lines 99-102: the cell an item falls in.
CellOf(item, g, sub) ==
    LET face_x == item.x - g.min_x
        face_y == item.y - g.min_y
        cell_x == face_x \div sub[1]
        cell_y == face_y \div sub[2]
    IN  <<cell_x, cell_y>>

\* Lines 99-100, 108: the face an item adds to its cell.
PlaceItem(item, g, sub) == CellFace(item, item.x - g.min_x, item.y - g.min_y, sub)

\* Lines 98-108: every cell gets the faces of its items, in the order of
\* grid.items.
PlaceItems(rows, g, sub) ==
    [y \in DOMAIN rows |->
        [x \in DOMAIN rows[y] |->
            LET Here(item) == CellOf(item, g, sub) = <<x, y>>
                mine == SelectSeq(g.items, Here)
            IN  [rows[y][x] EXCEPT
                    !.faces = @ \o [i \in 1 .. Len(mine) |-> PlaceItem(mine[i], g, sub)]]]]

BorderStatesArrayOnly(rows, width, height, x, y) ==
    <<y = 0, x = width - 1, y = height - 1, x = 0>>

\* Lines 115-118: the border states of the cell at (x, y), CCW from bottom.
BorderStates(rows, width, height, x, y) ==
    << y = 0 \/ ~IsCell(rows[y - 1][x]),
       x = width - 1 \/ ~IsCell(rows[y][x + 1]),
       y = height - 1 \/ ~IsCell(rows[y + 1][x]),
       x = 0 \/ ~IsCell(rows[y][x - 1]) >>

\* Lines 111-118.
SetBorders(rows, width, height) ==
    [y \in 0 .. height - 1 |->
        [x \in 0 .. width - 1 |->
            IF IsCell(rows[y][x])
            THEN [rows[y][x] EXCEPT !.is_end = BorderStates(rows, width, height, x, y)]
            ELSE rows[y][x]]]

\* Lines 94-118: the island of a finished FaceGrid.
MakeIsland(g, p) ==
    LET width == 1 + g.max_x - g.min_x
        height == 1 + g.max_y - g.min_y
        empty == [y \in 0 .. height - 1 |-> [x \in 0 .. width - 1 |-> NoCell]]
        placed == PlaceItems(empty, g, Subdivs(p))
    IN  [faces |-> g.faces, width |-> width, height |-> height,
         rows |-> SetBorders(placed, width, height)]

--------------------------------------------------------------------------
(* Island.get_uv, Island.get_texture_span, Island.apply                   *)

\* get_uv: <<u, 1 - v>> as numerators over 2*subdivs.x*texture_size.x and
\* 2*subdivs.y*texture_size.y.
get_uv(p, cell_x, cell_y, cell_width, face_x, face_y) ==
    LET sx == Subdivs(p)[1]
        sy == Subdivs(p)[2]
        u == sx + 2 * (cell_x * sx + cell_width * face_x) * p.cell_size[1]
        v == sy + 2 * (cell_y * sy + face_y) * p.cell_size[2]
    IN  <<u, 2 * sy * p.texture_size[2] - v>>

BoolInt(b) == IF b THEN 1 ELSE 0

get_texture_span_no_shift(p, x, y, is_start_x, is_end_x) ==
    LET phase == (x + y + BoolInt(p.offset)) % 2 = 1
        widen == \/ is_start_x /\ is_end_x
                 \/ is_start_x /\ phase
                 \/ is_end_x /\ ~phase
    IN  <<x + BoolInt(p.offset), y, IF p.double_halves /\ widen THEN 2 ELSE 1>>

get_texture_span_end_phase(p, x, y, is_start_x, is_end_x) ==
    LET phase == (x + y + BoolInt(p.offset)) % 2 = 1
        widen == \/ is_start_x /\ is_end_x
                 \/ is_start_x /\ phase
                 \/ is_end_x /\ phase
        wide == p.double_halves /\ widen
    IN  <<(IF wide THEN x - BoolInt(phase) ELSE x) + BoolInt(p.offset), y,
          IF wide THEN 2 ELSE 1>>

\* get_texture_span: <<x, y, width>>.
get_texture_span(p, x, y, is_start_x, is_end_x) ==
    LET phase == (x + y + BoolInt(p.offset)) % 2 = 1
        widen == \/ is_start_x /\ is_end_x
                 \/ is_start_x /\ phase
                 \/ is_end_x /\ ~phase
        width == IF p.double_halves /\ widen THEN 2 ELSE 1
        x1 == IF p.double_halves /\ widen THEN x - BoolInt(phase) ELSE x
        x2 == x1 + BoolInt(p.offset)
    IN  <<x2, y, width>>

RandRange1(n) == 0 .. n - 1

\* random.randrange(0, n, 2)
RandRange2(n) == {k \in 0 .. n - 1 : k % 2 = 0}

\* Lines 139-140: the values x_org (axis 1) or y_org (axis 2) may take.
Origins(p, axis) ==
    IF p.random THEN RandRange2(p.texture_size[axis] \div p.cell_size[axis]) ELSE {0}

CellSpanUnswapped(p, cell, x, y, x_org, y_org) ==
    IF p.rotate
    THEN get_texture_span(p, x_org + x, y_org + y, cell.is_end[1], cell.is_end[3])
    ELSE get_texture_span(p, x_org + x, y_org + y, cell.is_end[4], cell.is_end[2])

\* Lines 145-148: the span of the cell at (x, y).
CellSpan(p, cell, x, y, x_org, y_org) ==
    IF p.rotate
    THEN get_texture_span(p, x_org + y, y_org + x, cell.is_end[1], cell.is_end[3])
    ELSE get_texture_span(p, x_org + x, y_org + y, cell.is_end[4], cell.is_end[2])

\* Line 156 repeated: the loop reached after n steps of the corner walk.
RECURSIVE WalkLoop(_, _, _)
WalkLoop(p, loop, n) ==
    IF n = 0 THEN loop
    ELSE WalkLoop(p, IF p.rotate THEN link_loop_prev(loop) ELSE link_loop_next(loop), n - 1)

\* Lines 151-156: the four UV writes of one face, in order.
FaceWrites(p, face, tex) ==
    LET fx == IF p.rotate THEN face.y ELSE face.x
        fy == IF p.rotate THEN face.x ELSE face.y
        corners == << <<fx, fy>>, <<fx + 1, fy>>, <<fx + 1, fy + 1>>, <<fx, fy + 1>> >>
    IN  [i \in 1 .. 4 |->
            [loop |-> WalkLoop(p, face.loop, i - 1),
             uv |-> get_uv(p, tex[1], tex[2], tex[3], corners[i][1], corners[i][2])]]

\* Lines 150-156: the writes of the cell in slot n, four per face; a write is
\* stamped with the time it happens at: slot, face of the cell, corner.
CellWrites(p, cell, tex, n) ==
    {[at |-> <<n, k, i>>,
      loop |-> FaceWrites(p, cell.faces[k], tex)[i].loop,
      uv |-> FaceWrites(p, cell.faces[k], tex)[i].uv] :
        k \in 1 .. Len(cell.faces), i \in 1 .. 4}

\* Lines 141-156: the writes of the whole island; n counts slots row by row.
IslandWrites(p, isl, x_org, y_org, n) ==
    UNION {LET x == m % isl.width
               y == m \div isl.width
               cell == isl.rows[y][x]
           IN  IF IsCell(cell)
               THEN CellWrites(p, cell, CellSpan(p, cell, x, y, x_org, y_org), m)
               ELSE {} :
           m \in n .. isl.width * isl.height - 1}

\* The loops run in the order of lines 141, 142, 150, 154.
Later(a, b) ==
    \/ a[1] > b[1]
    \/ a[1] = b[1] /\ a[2] > b[2]
    \/ a[1] = b[1] /\ a[2] = b[2] /\ a[3] > b[3]

\* The UV attribute after the writes: each loop holds the value of the last
\* write to it (line 155), or its old value.
Written(u, writes) ==
    [l \in DOMAIN u \cup {w.loop : w \in writes} |->
        LET hits == {w \in writes : w.loop = l}
        IN  IF hits = {} THEN u[l]
            ELSE (CHOOSE w \in hits : \A v \in hits : v = w \/ Later(w.at, v.at)).uv]

NoUV == [l \in {} |-> <<0, 0>>]

--------------------------------------------------------------------------
(* main and the add_item recursion, one step at a time                    *)

NFaces == Cardinality(MeshFaces(mesh))

find_island_first(face) ==
    IF islands # <<>> /\ face \in islands[1].faces THEN 1 ELSE 0

\* find_island: the index in _islands of the first island holding the face,
\* 0 for None.
find_island(face) ==
    LET hits == {k \in 1 .. Len(islands) : face \in islands[k].faces}
    IN  IF hits = {} THEN 0 ELSE CHOOSE k \in hits : \A o \in hits : k <= o

\* select_similar(type='COPLANAR'): every face in the plane of a selected one.
SelectSimilar(m, sel) ==
    {f \in MeshFaces(m) : \E g \in sel : FacePlane(m, f) = FacePlane(m, g)}

\* Lines 159-166.
MainStart ==
    /\ pc = "start"
    /\ islands' = <<>>
    /\ select' = IF params.coplanar THEN SelectSimilar(mesh, select) ELSE select
    /\ faceIdx' = 1
    /\ pc' = "discover"
    /\ UNCHANGED <<mesh, params, grid, stack, calls, applyIdx, orgs, uv, spanIn, spanOut>>

\* Entry of add_item(loop, x, y) on FaceGrid g with the callers' frames stk:
\* lines 50-60, then the frame of the for loop of line 66.
AddItemEnter(g, stk, n, loop, x, y) ==
    IF loop[1] \notin select
    THEN /\ pc' = "aborted"
         /\ UNCHANGED <<grid, stack, calls>>
    ELSE /\ grid' = GridAdd(g, loop, x, y)
         /\ stack' = Append(stk, Frame(loop, x, y, 0))
         /\ calls' = n + 1
         /\ pc' = "walk"

\* Lines 168-171, one face of bm.faces: Island(face) starts its FaceGrid
\* (lines 85-93, 41-45) unless the face is unselected or already claimed.
MainFace ==
    /\ pc = "discover"
    /\ faceIdx <= NFaces
    /\ IF faceIdx \in select /\ find_island(faceIdx) = 0
       THEN /\ AddItemEnter(EmptyGrid, <<>>, 0, BestLoop(mesh, faceIdx), 0, 0)
            /\ UNCHANGED faceIdx
       ELSE /\ faceIdx' = faceIdx + 1
            /\ UNCHANGED <<pc, grid, stack, calls>>
    /\ UNCHANGED <<mesh, select, params, islands, applyIdx, orgs, uv, spanIn, spanOut>>

\* Lines 66-71, one iteration of the for loop of the innermost add_item.  A
\* recursion deeper than MaxDepth (the interpreter's recursion limit) ends
\* the invocation.
AddItemStep ==
    /\ pc = "walk"
    /\ stack # <<>>
    /\ LET top == stack[Len(stack)]
           i == top.i
           twin == link_loop_radial_next(mesh, top.loop)
           resumed == [stack EXCEPT ![Len(stack)] =
                          Frame(link_loop_next(top.loop), top.x, top.y, i + 1)]
       IN  /\ i < 4
           /\ IF FollowTwin(twin, grid)
              THEN IF Len(stack) >= MaxDepth
                   THEN /\ pc' = "aborted"
                        /\ UNCHANGED <<grid, stack, calls>>
                   ELSE AddItemEnter(grid, resumed, calls,
                                     increment_loop(twin, twin_adjust_loop[i + 1]),
                                     top.x + twin_delta_x[i + 1],
                                     top.y + twin_delta_y[i + 1])
              ELSE /\ stack' = resumed
                   /\ UNCHANGED <<pc, grid, calls>>
    /\ UNCHANGED <<mesh, select, params, faceIdx, islands, applyIdx, orgs, uv, spanIn, spanOut>>

\* The innermost add_item returns after its fourth iteration.
AddItemReturn ==
    /\ pc = "walk"
    /\ stack # <<>>
    /\ stack[Len(stack)].i = 4
    /\ stack' = SubSeq(stack, 1, Len(stack) - 1)
    /\ UNCHANGED <<mesh, select, params, pc, faceIdx, islands, grid, calls,
                   applyIdx, orgs, uv, spanIn, spanOut>>

IslandDoneApplied ==
    /\ pc = "walk"
    /\ stack = <<>>
    /\ islands' = Append(islands, MakeIsland(grid, params))
    /\ faceIdx' = faceIdx + 1
    /\ pc' = "discover"
    /\ \E x_org \in Origins(params, 1), y_org \in Origins(params, 2) :
          /\ uv' = Written(uv, IslandWrites(params, MakeIsland(grid, params), x_org, y_org, 0))
          /\ orgs' = Append(orgs, <<x_org, y_org>>)
    /\ UNCHANGED <<mesh, select, params, grid, stack, calls, applyIdx, spanIn, spanOut>>

\* FaceGrid has returned: lines 94-118 build the island, line 171 appends it
\* and the for loop of line 168 moves on.
IslandDone ==
    /\ pc = "walk"
    /\ stack = <<>>
    /\ islands' = Append(islands, MakeIsland(grid, params))
    /\ faceIdx' = faceIdx + 1
    /\ pc' = "discover"
    /\ UNCHANGED <<mesh, select, params, grid, stack, calls, applyIdx, orgs, uv,
                   spanIn, spanOut>>

\* The for loop of line 168 is exhausted; line 173 starts.
MainApplyStart ==
    /\ pc = "discover"
    /\ faceIdx > NFaces
    /\ applyIdx' = 1
    /\ pc' = "apply"
    /\ UNCHANGED <<mesh, select, params, faceIdx, islands, grid, stack, calls, orgs, uv,
                   spanIn, spanOut>>

\* Lines 173-174, one island: Island.apply (lines 137-156).
Apply ==
    /\ pc = "apply"
    /\ applyIdx <= Len(islands)
    /\ \E x_org \in Origins(params, 1), y_org \in Origins(params, 2) :
          /\ uv' = Written(uv, IslandWrites(params, islands[applyIdx], x_org, y_org, 0))
          /\ orgs' = Append(orgs, <<x_org, y_org>>)
    /\ applyIdx' = applyIdx + 1
    /\ UNCHANGED <<mesh, select, params, pc, faceIdx, islands, grid, stack, calls,
                   spanIn, spanOut>>

\* Line 176.
MainEnd ==
    /\ pc = "apply"
    /\ applyIdx > Len(islands)
    /\ pc' = "done"
    /\ UNCHANGED <<mesh, select, params, faceIdx, islands, grid, stack, calls, applyIdx,
                   orgs, uv, spanIn, spanOut>>

NoSpan == <<>>

\* The operator's defaults (lines 187-192) with the options main and the
\* discovery read varied.
MainParams ==
    {MakeParams(<<CellSize, CellSize>>, FALSE, FALSE, TRUE, cop, rnd, sub) :
        cop \in BOOLEAN, rnd \in BOOLEAN, sub \in BOOLEAN}

Init ==
    /\ mesh \in Meshes
    /\ select \in SUBSET MeshFaces(mesh)
    /\ params \in MainParams
    /\ pc = "start"
    /\ faceIdx = 0
    /\ islands = <<>>
    /\ grid = EmptyGrid
    /\ stack = <<>>
    /\ calls = 0
    /\ applyIdx = 0
    /\ orgs = <<>>
    /\ uv = NoUV
    /\ spanIn = NoSpan
    /\ spanOut = NoSpan

Next ==
    \/ MainStart
    \/ MainFace
    \/ AddItemStep
    \/ AddItemReturn
    \/ IslandDone
    \/ MainApplyStart
    \/ Apply
    \/ MainEnd

Spec == Init /\ [][Next]_vars

--------------------------------------------------------------------------
(* Island construction and apply on their own: the run starts where a     *)
(* FaceGrid has just returned (line 93), with any grid a walk over a wall *)
(* of quads can produce: a connected set of positions, the seed at (0,0). *)

\* BoxW columns in two rows, the least height on which a row with a gap is
\* part of a connected set; and the same turned on its side, for columns.
BoxPositions == (0 .. BoxW - 1) \X (0 .. 1)

TallPositions == (0 .. 1) \X (0 .. BoxW - 1)

Neighbours(q) ==
    {<<q[1] + 1, q[2]>>, <<q[1] - 1, q[2]>>, <<q[1], q[2] + 1>>, <<q[1], q[2] - 1>>}

RECURSIVE Reach(_, _)
Reach(P, seen) ==
    LET more == seen \cup {q \in P : \E r \in seen : q \in Neighbours(r)}
    IN  IF more = seen THEN seen ELSE Reach(P, more)

\* The positions in row-major order: the i-th has i - 1 positions before it.
InOrder(P) ==
    [i \in 1 .. Cardinality(P) |->
        CHOOSE q \in P :
            Cardinality({r \in P : r[2] < q[2] \/ (r[2] = q[2] /\ r[1] < q[1])}) = i - 1]

\* The FaceGrid over positions P walked from seed: an item per position, the
\* seed first, coordinates relative to the seed; the bounding box of lines
\* 57-60 starts at the seed's (0, 0).
GridItem(q, seed, w) ==
    [loop |-> <<q[2] * w + q[1] + 1, 0>>, x |-> q[1] - seed[1], y |-> q[2] - seed[2]]

Least(S) == CHOOSE m \in S : \A n \in S : m <= n

Greatest(S) == CHOOSE m \in S : \A n \in S : m >= n

GridOver(P, seed, w) ==
    LET order == <<seed>> \o InOrder(P \ {seed})
        items == [k \in 1 .. Len(order) |-> GridItem(order[k], seed, w)]
        xs == {items[k].x : k \in 1 .. Len(order)}
        ys == {items[k].y : k \in 1 .. Len(order)}
    IN  [faces |-> {items[k].loop[1] : k \in 1 .. Len(order)},
         items |-> items,
         min_x |-> Least(xs), min_y |-> Least(ys),
         max_x |-> Greatest(xs), max_y |-> Greatest(ys)]

SquareSide == 2 * CellSize

\* The grids over the connected subsets of positions, from every seed.
GridsIn(positions, w) ==
    {GridOver(Ps[1], Ps[2], w) :
        Ps \in {Qs \in (SUBSET positions) \X positions :
                    Qs[2] \in Qs[1] /\ Reach(Qs[1], {Qs[2]}) = Qs[1]}}

InputGrids ==
    GridsIn(BoxPositions, BoxW)
    \cup
    GridsIn(TallPositions, 2)
    \cup
    {GridOver((0 .. SquareSide - 1) \X (0 .. SquareSide - 1), seed, SquareSide) :
        seed \in {<<0, 0>>, <<1, 1>>}}

IslandParams ==
    {MakeParams(cs, rot, off, dh, FALSE, rnd, sub) :
        cs \in {<<CellSize, CellSize>>, <<CellSize, 1>>},
        rot \in BOOLEAN, off \in BOOLEAN, dh \in BOOLEAN, rnd \in BOOLEAN, sub \in BOOLEAN}

InitIsland ==
    /\ mesh = "none"
    /\ grid \in InputGrids
    /\ select = grid.faces
    /\ params \in IslandParams
    /\ pc = "walk"
    /\ faceIdx = 1
    /\ islands = <<>>
    /\ stack = <<>>
    /\ calls = Len(grid.items)
    /\ applyIdx = 0
    /\ orgs = <<>>
    /\ uv = NoUV
    /\ spanIn = NoSpan
    /\ spanOut = NoSpan

NextIsland ==
    \/ IslandDone
    \/ MainApplyStart
    \/ Apply
    \/ MainEnd

SpecIsland == InitIsland /\ [][NextIsland]_vars

--------------------------------------------------------------------------
(* get_texture_span called directly                                       *)

SpanCall ==
    /\ pc = "span"
    /\ spanOut' = get_texture_span(params, spanIn.x, spanIn.y, spanIn.is_start_x, spanIn.is_end_x)
    /\ pc' = "spandone"
    /\ UNCHANGED <<mesh, select, params, faceIdx, islands, grid, stack, calls, applyIdx,
                   orgs, uv, spanIn>>

SpanParams ==
    {MakeParams(<<CellSize, CellSize>>, FALSE, off, dh, FALSE, FALSE, FALSE) :
        off \in BOOLEAN, dh \in BOOLEAN}

InitSpan ==
    /\ mesh = "none"
    /\ select = {}
    /\ params \in SpanParams
    /\ pc = "span"
    /\ faceIdx = 0
    /\ islands = <<>>
    /\ grid = EmptyGrid
    /\ stack = <<>>
    /\ calls = 0
    /\ applyIdx = 0
    /\ orgs = <<>>
    /\ uv = NoUV
    /\ spanIn \in [x : (0 - SpanRange) .. SpanRange, y : (0 - SpanRange) .. SpanRange,
                   is_start_x : BOOLEAN, is_end_x : BOOLEAN]
    /\ spanOut = NoSpan

SpecSpan == InitSpan /\ [][SpanCall]_vars

--------------------------------------------------------------------------
(* Properties                                                             *)

\* The FaceGrid of the current island is complete (add_item has returned to
\* FaceGrid.__init__).
WalkDone == pc = "walk" /\ stack = <<>>

\* The last island of _islands was built from grid.
IslandBuilt == pc \in {"discover", "apply", "done"} /\ islands # <<>>

LastIsland == islands[Len(islands)]

CellSlots(isl) ==
    {q \in (0 .. isl.width - 1) \X (0 .. isl.height - 1) : IsCell(isl.rows[q[2]][q[1]])}

\* Item b lies across edge i (0 bottom, 1 right, 2 top, 3 left) of item a.
AcrossEdge(g, a, b, i) ==
    /\ a # b
    /\ link_loop_radial_next(mesh, increment_loop(g.items[a].loop, i))[1] = g.items[b].loop[1]

\* bottom (0,-1), right (1,0), top (0,1), left (-1,0)
EdgeDelta == << <<0, -1>>, <<1, 0>>, <<0, 1>>, <<-1, 0>> >>

UnitDelta(g, a, b, i) ==
    /\ g.items[b].x = g.items[a].x + EdgeDelta[i + 1][1]
    /\ g.items[b].y = g.items[a].y + EdgeDelta[i + 1][2]

AllAdjacentDelta(g) ==
    \A a \in 1 .. Len(g.items), b \in 1 .. Len(g.items), i \in 0 .. 3 :
        AcrossEdge(g, a, b, i) => UnitDelta(g, a, b, i)

\* Every item but the seed was entered from an earlier item across one of
\* that item's edges, with the unit delta of that edge.
EnteredDelta(g) ==
    \A b \in 2 .. Len(g.items) :
        \E a \in 1 .. (b - 1), i \in 0 .. 3 :
            AcrossEdge(g, a, b, i) /\ UnitDelta(g, a, b, i)

\* C1 as stated: after island discovery, every pair of selected faces that
\* share an edge has coordinates differing by the unit delta of that edge as
\* seen from the first face, on any mesh, traversed by the walk or not.
C1_AllAdjacentAnyMesh == WalkDone => AllAdjacentDelta(grid)

\* C1 amended: after island discovery, every face but the seed differs by the
\* unit delta of the shared edge from the face the walk entered it from, on
\* any mesh; on a flat, consistently wound wall of quads the same holds for
\* every edge-adjacent pair, traversed or not.
C1_EnteredOrFlatWall ==
    WalkDone => /\ EnteredDelta(grid)
                /\ (mesh = "grid" => AllAdjacentDelta(grid))

\* A finished walk over the whole wall: some adjacent pair was not traversed.
C1_Witness ==
    /\ WalkDone
    /\ mesh = "grid"
    /\ grid.faces = MeshFaces(mesh)
    /\ Len(grid.items) >= 4

\* The number of (loop, x, y) entries of face f held by the cells of isl.
FaceEntries(isl, f) ==
    {e \in CellSlots(isl) \X (1 .. Cardinality(isl.faces)) :
        /\ e[2] <= Len(isl.rows[e[1][2]][e[1][1]].faces)
        /\ isl.rows[e[1][2]][e[1][1]].faces[e[2]].loop[1] = f}

\* C2: when the discovery loop of main has finished, every selected face is
\* in exactly one island, no unselected face is in any island, and every
\* member face has exactly one entry in its island.
C2_IslandsPartitionSelection ==
    pc \in {"apply", "done"} =>
        \A f \in MeshFaces(mesh) :
            LET owners == {k \in 1 .. Len(islands) : f \in islands[k].faces}
            IN  /\ f \in select => Cardinality(owners) = 1
                /\ f \notin select => owners = {}
                /\ \A k \in 1 .. Len(islands) :
                      Cardinality(FaceEntries(islands[k], f)) = IF k \in owners THEN 1 ELSE 0

C2_Witness ==
    /\ pc = "done"
    /\ Len(islands) >= 2
    /\ \E k \in 1 .. Len(islands) : Cardinality(islands[k].faces) >= 2
    /\ select # MeshFaces(mesh)

\* The closed form of the span, as the text describes it.
SpanPhase(p, x, y) == (x + y + BoolInt(p.offset)) % 2 = 1

SpanWidened(p, x, y, s, e) ==
    /\ p.double_halves
    /\ \/ s /\ e
       \/ s /\ SpanPhase(p, x, y)
       \/ e /\ ~SpanPhase(p, x, y)

\* C3: get_texture_span returns y unchanged, width 2 exactly when
\* double_halves is on and the cell is (start and end) or (start and phase)
\* or (end and not phase), else width 1; the returned x is the input x, minus
\* 1 exactly when widened and phase, plus 1 exactly when offset is on.
C3_SpanClosedForm ==
    pc = "spandone" =>
        LET x == spanIn.x
            y == spanIn.y
            wide == SpanWidened(params, x, y, spanIn.is_start_x, spanIn.is_end_x)
        IN  /\ spanOut[2] = y
            /\ spanOut[3] = (IF wide THEN 2 ELSE 1)
            /\ spanOut[1] = x - BoolInt(wide /\ SpanPhase(params, x, y)) + BoolInt(params.offset)
            /\ (~params.double_halves => spanOut[3] = 1)
            /\ (params.double_halves /\ spanIn.is_start_x /\ spanIn.is_end_x => spanOut[3] = 2)

C3_Witness ==
    /\ pc = "spandone"
    /\ params.double_halves
    /\ params.offset
    /\ spanIn.is_start_x /\ ~spanIn.is_end_x
    /\ spanOut = <<spanIn.x, spanIn.y, 2>>


WithRotate(p, r) == [p EXCEPT !.rotate = r]

\* The occupied slots of isl are exactly the n x n square at the origin.
FullSquare(isl, n) == CellSlots(isl) = (0 .. n - 1) \X (0 .. n - 1)

\* Corner k of a face (k steps from its bottom loop) is local corner
\* (0,0), (1,0), (1,1), (0,1); the transposed corner swaps (1,0) and (0,1).
TransposeCorner == <<0, 3, 2, 1>>

\* uv holds the layout written under params.rotate; the layout of the other
\* setting is what apply writes for the same island and origin.
RotatedIsTranspose(isl, n, x_org, y_org) ==
    LET pR == WithRotate(params, TRUE)
        pN == WithRotate(params, FALSE)
        other == Written(NoUV, IslandWrites(WithRotate(params, ~params.rotate),
                                            isl, x_org, y_org, 0))
        uvR == IF params.rotate THEN uv ELSE other
        uvN == IF params.rotate THEN other ELSE uv
    IN  \A x \in 0 .. n - 1, y \in 0 .. n - 1 :
            LET cR == isl.rows[y][x]
                cN == isl.rows[x][y]
            IN  /\ CellSpan(pR, cR, x, y, x_org, y_org) = CellSpan(pN, cN, y, x, x_org, y_org)
                /\ \A i \in 1 .. Len(cR.faces), j \in 1 .. Len(cN.faces) :
                      (cN.faces[j].x = cR.faces[i].y /\ cN.faces[j].y = cR.faces[i].x) =>
                          \A c \in 0 .. 3 :
                              uvR[increment_loop(cR.faces[i].loop, c)]
                                  = uvN[increment_loop(cN.faces[j].loop, TransposeCorner[c + 1])]

\* C4: for a fully occupied n x n island and a fixed atlas origin, the cell
\* at (x, y) gets under rotate=True the span the cell at (y, x) gets under
\* rotate=False, and the vertex at local corner (dx, dy) of a face gets the UV
\* that corner (dy, dx) of the transposed face gets when not rotated.
C4_RotateTransposesSquare ==
    pc = "done" =>
        \A k \in 1 .. Len(islands), n \in 1 .. SquareSide :
            FullSquare(islands[k], n) =>
                RotatedIsTranspose(islands[k], n, orgs[k][1], orgs[k][2])

C4_Witness ==
    /\ pc = "done"
    /\ islands # <<>>
    /\ FullSquare(islands[1], 2)
    /\ params.rotate /\ params.double_halves /\ params.subdiv
    /\ DOMAIN uv # {}

\* C5: one origin is drawn per applied island, both components even and in
\* [0, texture_size / cell_size); and for every cell and every origin drawn
\* the span is the span for origin (0, 0) with the same width, translated by
\* (x_org, y_org).
C5_OriginEvenPreservesPhase ==
    /\ Len(orgs) = (IF pc \in {"apply", "done"} THEN applyIdx - 1 ELSE 0)
    /\ \A k \in 1 .. Len(orgs), axis \in 1 .. 2 :
          /\ orgs[k][axis] % 2 = 0
          /\ 0 <= orgs[k][axis]
          /\ orgs[k][axis] * params.cell_size[axis] < params.texture_size[axis]
          /\ orgs[k][axis] \in Origins(params, axis)
    /\ \A k \in 1 .. Len(orgs) :
          \A q \in CellSlots(islands[k]) :
              LET cell == islands[k].rows[q[2]][q[1]]
                  s == CellSpan(params, cell, q[1], q[2], orgs[k][1], orgs[k][2])
                  z == CellSpan(params, cell, q[1], q[2], 0, 0)
              IN  s = <<z[1] + orgs[k][1], z[2] + orgs[k][2], z[3]>>

C5_Witness ==
    /\ pc = "done"
    /\ params.random /\ params.double_halves
    /\ Len(orgs) = 1
    /\ orgs[1][1] + orgs[1][2] > 0
    /\ \E q \in CellSlots(islands[1]) :
          CellSpan(params, islands[1].rows[q[2]][q[1]], q[1], q[2], orgs[1][1], orgs[1][2])[3] = 2

\* C6: a UV is written only after every island has been discovered (the
\* loop over bm.faces is exhausted and every selected face is claimed), and
\* an invocation aborted by add_item's fault has written no UV.
C6_WritesAfterDiscovery ==
    /\ DOMAIN uv # {} =>
          /\ pc \in {"apply", "done"}
          /\ faceIdx > NFaces
          /\ \A f \in select : find_island(f) # 0
    /\ pc = "aborted" => DOMAIN uv = {}

C6_Witness ==
    /\ pc = "apply"
    /\ Len(islands) >= 2
    /\ applyIdx = 2
    /\ DOMAIN uv # {}

\* The work the walk has left: the iterations and the return of every open
\* add_item, and a whole add_item for every selected face not yet entered.
RECURSIVE OpenWork(_, _)
OpenWork(stk, k) == IF k > Len(stk) THEN 0 ELSE (5 - stk[k].i) + OpenWork(stk, k + 1)

WalkVariant == OpenWork(stack, 1) + 6 * Cardinality(select \ grid.faces)

\* C7: the walk of an island terminates (every step of it lowers a
\* non-negative measure and none ends in a fault), and add_item is entered
\* once per face of the island, so never more often than there are selected
\* faces.
C7_WalkTerminatesOncePerFace ==
    [][/\ pc' = "walk" => /\ calls' = Cardinality(grid'.faces)
                          /\ calls' <= Cardinality(select')
                          /\ WalkVariant' >= 0
       /\ pc = "walk" => pc' # "aborted"
       /\ (pc = "walk" /\ pc' = "walk") => WalkVariant' < WalkVariant]_vars

\* A walk all the way round the closed band: the last face meets the first.
C7_Witness ==
    /\ WalkDone
    /\ mesh = "ring"
    /\ calls = RingN

\* The cell entry of item it, with the intra-cell offset (ox, oy).
StoredAs(isl, g, it, ox, oy) ==
    LET sub == Subdivs(params)
        cell == isl.rows[(it.y - g.min_y) \div sub[2]][(it.x - g.min_x) \div sub[1]]
    IN  \E n \in 1 .. Len(cell.faces) :
            cell.faces[n] = [loop |-> it.loop, x |-> ox, y |-> oy]

\* C8 as stated: the face at (x, y) is stored in cell ((x - min_x) div
\* subdivs.x, (y - min_y) div subdivs.y) with offset (x mod subdivs.x,
\* y mod subdivs.y).
C8_OffsetOfRawPosition ==
    IslandBuilt =>
        \A k \in 1 .. Len(grid.items) :
            LET it == grid.items[k]
            IN  StoredAs(LastIsland, grid, it,
                         it.x % Subdivs(params)[1], it.y % Subdivs(params)[2])

\* C8 amended: the recorded offset is ((x - min_x) mod subdivs.x,
\* (y - min_y) mod subdivs.y), the position relative to the bounding box.
C8_OffsetOfBoxPosition ==
    IslandBuilt =>
        \A k \in 1 .. Len(grid.items) :
            LET it == grid.items[k]
            IN  StoredAs(LastIsland, grid, it,
                         (it.x - grid.min_x) % Subdivs(params)[1],
                         (it.y - grid.min_y) % Subdivs(params)[2])

C8_Witness ==
    /\ IslandBuilt
    /\ params.subdiv
    /\ grid.min_x % Subdivs(params)[1] # 0
    /\ Len(grid.items) >= 3

\* The slot at (x, y) is outside the array or holds no cell.
NoCellAt(isl, x, y) ==
    \/ x < 0 \/ x >= isl.width
    \/ y < 0 \/ y >= isl.height
    \/ ~IsCell(isl.rows[y][x])

\* C9: for every non-empty cell, each border flag (bottom, right, top, left)
\* is true exactly when the adjacent slot in that direction is outside the
\* cell array or holds no cell.
C9_BorderFlags ==
    \A k \in 1 .. Len(islands) :
        \A q \in CellSlots(islands[k]) :
            islands[k].rows[q[2]][q[1]].is_end =
                << NoCellAt(islands[k], q[1], q[2] - 1), NoCellAt(islands[k], q[1] + 1, q[2]),
                   NoCellAt(islands[k], q[1], q[2] + 1), NoCellAt(islands[k], q[1] - 1, q[2]) >>

\* With subdivision: a right border at an empty slot inside the array, and a
\* cell with a neighbour.
C9_Witness ==
    /\ islands # <<>>
    /\ params.subdiv
    /\ \E q \in CellSlots(islands[1]) :
          /\ q[1] + 1 < islands[1].width
          /\ islands[1].rows[q[2]][q[1]].is_end[2]
    /\ \E q \in CellSlots(islands[1]) : ~islands[1].rows[q[2]][q[1]].is_end[4]

SameLine(p, a, b) == IF p.rotate THEN a[1] = b[1] ELSE a[2] = b[2]

\* C10: the spans apply computes for two different cells on one tiling line
\* (a row, or a column when rotated) share no atlas cell.
C10_SpansDisjoint ==
    \A k \in 1 .. Len(orgs) :
        \A a \in CellSlots(islands[k]), b \in CellSlots(islands[k]) :
            (a # b /\ SameLine(params, a, b)) =>
                LET sa == CellSpan(params, islands[k].rows[a[2]][a[1]], a[1], a[2],
                                   orgs[k][1], orgs[k][2])
                    sb == CellSpan(params, islands[k].rows[b[2]][b[1]], b[1], b[2],
                                   orgs[k][1], orgs[k][2])
                IN  sa[1] + sa[3] <= sb[1] \/ sb[1] + sb[3] <= sa[1]

\* Two cells of a row with an empty slot between them, one widened into it.
C10_Witness ==
    /\ pc = "done"
    /\ params.double_halves /\ ~params.rotate
    /\ \E a \in CellSlots(islands[1]) :
          /\ <<a[1] + 2, a[2]>> \in CellSlots(islands[1])
          /\ <<a[1] + 1, a[2]>> \notin CellSlots(islands[1])
          /\ CellSpan(params, islands[1].rows[a[2]][a[1]], a[1], a[2], 0, 0)
                = <<a[1] + BoolInt(params.offset), a[2], 2>>

==========================================================================
